---- MODULE Spec2Model ----
(***************************************************************************)
(* A model of the middleware composition engine of src/src/lib.rs:         *)
(* ServiceBuilder, Stack, the no-op layer (), LoggingMiddleware,           *)
(* AgentLayer and the services they produce, together with the step by     *)
(* step execution of Service::call on a composed service.                  *)
(*                                                                         *)
(* A String is a sequence of tokens: "B:A:x" is <<"B", "A", "x">>.         *)
(* An Agent is named by its tag; the instrumented upstream of agent a      *)
(* answers the prompt p with a ++ ":" ++ p, or fails.                      *)
(***************************************************************************)
EXTENDS Naturals, Sequences, FiniteSets

\* ------------------------------------------------------------------ bounds
MaxLayers == 3        \* calls of ServiceBuilder::layer on one builder (Spec)
MaxSharedLayers == 2  \* the same, when two services share the chain (SpecShared)
MaxCalls == 1         \* calls of Service::call on one composed service

Inst       == {1, 2}              \* composed services held by the program
BaseAgents == {"A"}               \* agents given to AgentService::new
LayerAgents == {"B"}              \* agents given to AgentLayer::new
Inputs     == {<<"x">>, <<"y">>}  \* inputs of Service::call

\* ------------------------------------------------------------ layer values
Unit == [kind |-> "()"]

LoggingMiddleware == [kind |-> "LoggingMiddleware"]

AgentLayer_new(agent) == [kind |-> "AgentLayer", agent |-> agent]

Stack_new(inner, outer) == [kind |-> "Stack", inner |-> inner, outer |-> outer]

AtomicLayers == {LoggingMiddleware} \cup {AgentLayer_new(a) : a \in LayerAgents}

\* What a caller hands to ServiceBuilder::layer: a single layer, or two
\* layers grouped beforehand into one Stack.
LayerInputs == AtomicLayers \cup {Stack_new(x, y) : x \in AtomicLayers, y \in AtomicLayers}

\* ---------------------------------------------------------- service values
AgentService_new(agent) == [kind |-> "AgentService", agent |-> agent]

NoService == [kind |-> "none"]
Consumed  == [kind |-> "consumed"]

\* --------------------------------------------------------- Layer::layer
\* A wrap in progress: the service built so far and the log of the
\* Layer::layer bodies that have run (instrumentation).
Wrapping(service) == [service |-> service, ran |-> <<>>]

\* A no-op layer that wraps all the same.
Unit_layerWrapping(w) ==
    [service |-> [kind |-> "LoggingService", inner |-> w.service],
     ran     |-> Append(w.ran, Unit)]

Unit_layer(w) == [service |-> w.service, ran |-> Append(w.ran, Unit)]

LoggingMiddleware_layer(self, w) ==
    [service |-> [kind |-> "LoggingService", inner |-> w.service],
     ran     |-> Append(w.ran, self)]

AgentLayer_layer(self, w) ==
    [service |-> [kind |-> "AgentLayerService", inner |-> w.service, agent |-> self.agent],
     ran     |-> Append(w.ran, self)]

RECURSIVE Layer_layer(_, _)
\* A Stack that applies its outer layer first.
Stack_layerSwapped(self, w) == Layer_layer(self.inner, Layer_layer(self.outer, w))

\* A Stack that forgets its inner layer.
Stack_layerOuterOnly(self, w) == Layer_layer(self.outer, w)

Stack_layer(self, w) == Layer_layer(self.outer, Layer_layer(self.inner, w))

Layer_layer(self, w) ==
    CASE self.kind = "()"                -> Unit_layer(w)
      [] self.kind = "LoggingMiddleware" -> LoggingMiddleware_layer(self, w)
      [] self.kind = "AgentLayer"        -> AgentLayer_layer(self, w)
      [] self.kind = "Stack"             -> Stack_layer(self, w)

\* -------------------------------------------------------- ServiceBuilder
ServiceBuilder_new == Unit

\* A builder that puts the new layer inside the old accumulator.
ServiceBuilder_layerPrepend(self, new_layer) == Stack_new(new_layer, self)

\* A builder that lets the first layer replace the no-op layer.
ServiceBuilder_layerFlat(self, new_layer) ==
    IF self = Unit THEN new_layer ELSE Stack_new(self, new_layer)

ServiceBuilder_layer(self, new_layer) == Stack_new(self, new_layer)

ServiceBuilder_build(self, service) == Layer_layer(self, Wrapping(service))

\* ------------------------------------------------------- service structure
RECURSIVE Depth(_)
Depth(s) == IF s.kind = "AgentService" THEN 1 ELSE 1 + Depth(s.inner)

\* The service d levels into s: Node(s, 1) is s itself.
RECURSIVE Node(_, _)
Node(s, d) == IF d = 1 THEN s ELSE Node(s.inner, d - 1)

\* ------------------------------------------------------------- upstream
AgentReply(agent, prompt) == <<agent>> \o prompt

\* Returning the formatted log line in place of the result.
ToStringLogLine(res) == <<"LLM response">> \o res

\* String::to_string: a fresh copy of the characters.
ToString(res) == [k \in 1..Len(res) |-> res[k]]

\* One observable step of a call: the event, the nesting level of the service
\* that made it, the agent prompted (if any) and the text involved.
Event(ev, d, agent, data) == [ev |-> ev, depth |-> d, agent |-> agent, data |-> data]

\* -------------------------------------------------------------------- state
VARIABLES
    builder,   \* ServiceBuilder.layer, or Consumed once build has taken self
    added,     \* the layers passed to ServiceBuilder::layer, in order
    svc,       \* svc[i]: the composed service i, or NoService
    base,      \* base[i]: the base service given when svc[i] was made
    chain,     \* chain[i]: the value of added when svc[i] was made
    ran,       \* ran[i]: the Layer::layer bodies run to make svc[i]
    pc,        \* pc[i]: position of the call in flight on svc[i]
    depth,     \* depth[i]: the nesting level of the service executing
    arg,       \* arg[i]: the input travelling inward / the pending prompt
    val,       \* val[i]: the value travelling outward
    input,     \* input[i]: the input of the latest call on svc[i]
    events,    \* events[i]: what the latest call on svc[i] did, in order
    ncalls     \* ncalls[i]: calls made on svc[i]

vars == <<builder, added, svc, base, chain, ran, pc, depth, arg, val, input, events, ncalls>>

buildVars == <<builder, added, svc, base, chain, ran>>
callVars  == <<pc, depth, arg, val, input, events, ncalls>>

Init ==
    /\ builder = ServiceBuilder_new
    /\ added   = <<>>
    /\ svc     = [i \in Inst |-> NoService]
    /\ base    = [i \in Inst |-> NoService]
    /\ chain   = [i \in Inst |-> <<>>]
    /\ ran     = [i \in Inst |-> <<>>]
    /\ pc      = [i \in Inst |-> "idle"]
    /\ depth   = [i \in Inst |-> 0]
    /\ arg     = [i \in Inst |-> <<>>]
    /\ val     = [i \in Inst |-> <<>>]
    /\ input   = [i \in Inst |-> <<>>]
    /\ events  = [i \in Inst |-> <<>>]
    /\ ncalls  = [i \in Inst |-> 0]

\* ----------------------------------------------------------- construction
\* ServiceBuilder::layer(self, new_layer)
layer(new_layer) ==
    /\ builder # Consumed
    /\ builder' = ServiceBuilder_layer(builder, new_layer)
    /\ added'   = Append(added, new_layer)
    /\ UNCHANGED <<svc, base, chain, ran>>
    /\ UNCHANGED callVars

Made(i, service, w) ==
    /\ svc'   = [svc EXCEPT ![i] = w.service]
    /\ base'  = [base EXCEPT ![i] = service]
    /\ chain' = [chain EXCEPT ![i] = added]
    /\ ran'   = [ran EXCEPT ![i] = w.ran]

\* ServiceBuilder::build(self, service): takes the builder.
build(i, service) ==
    /\ builder # Consumed
    /\ svc[i] = NoService
    /\ Made(i, service, ServiceBuilder_build(builder, service))
    /\ builder' = Consumed
    /\ UNCHANGED added
    /\ UNCHANGED callVars

\* Layer::layer(&self, inner) on the accumulated layer: borrows it, so the
\* same layer chain can wrap a second base service.
wrap(i, service) ==
    /\ builder # Consumed
    /\ svc[i] = NoService
    /\ Made(i, service, Layer_layer(builder, Wrapping(service)))
    /\ UNCHANGED <<builder, added>>
    /\ UNCHANGED callVars

\* --------------------------------------------------------- Service::call
Emit(i, e) == events' = [events EXCEPT ![i] = Append(@, e)]

\* A result kept in one slot that every composed service reads.
ReturnShared(i, v, evs) ==
    /\ val' = [j \in Inst |-> v]
    /\ events' = [events EXCEPT ![i] = Append(evs, Event("ret", depth[i], "", v))]
    /\ IF depth[i] = 1
         THEN /\ pc' = [pc EXCEPT ![i] = "returned"]
              /\ depth' = [depth EXCEPT ![i] = 0]
         ELSE /\ pc' = [pc EXCEPT ![i] = "resume"]
              /\ depth' = [depth EXCEPT ![i] = @ - 1]

\* The service at depth[i] returns v to whoever awaits it.
Return(i, v, evs) ==
    /\ val' = [val EXCEPT ![i] = v]
    /\ events' = [events EXCEPT ![i] = Append(evs, Event("ret", depth[i], "", v))]
    /\ IF depth[i] = 1
         THEN /\ pc' = [pc EXCEPT ![i] = "returned"]
              /\ depth' = [depth EXCEPT ![i] = 0]
         ELSE /\ pc' = [pc EXCEPT ![i] = "resume"]
              /\ depth' = [depth EXCEPT ![i] = @ - 1]

\* A call that runs the wrapping again.
CallWrapping(i, in) ==
    /\ svc[i] # NoService
    /\ pc[i] \in {"idle", "returned", "panicked"}
    /\ ncalls[i] < MaxCalls
    /\ pc'     = [pc EXCEPT ![i] = "enter"]
    /\ depth'  = [depth EXCEPT ![i] = 1]
    /\ arg'    = [arg EXCEPT ![i] = in]
    /\ input'  = [input EXCEPT ![i] = in]
    /\ val'    = [val EXCEPT ![i] = <<>>]
    /\ events' = [events EXCEPT ![i] = <<Event("call", 1, "", in)>>]
    /\ ncalls' = [ncalls EXCEPT ![i] = @ + 1]
    /\ ran'    = [ran EXCEPT ![i] = @ \o @]
    /\ UNCHANGED <<builder, added, svc, base, chain>>

\* The caller starts service.call(input) on composed service i.
Call(i, in) ==
    /\ svc[i] # NoService
    /\ pc[i] \in {"idle", "returned", "panicked"}
    /\ ncalls[i] < MaxCalls
    /\ pc'     = [pc EXCEPT ![i] = "enter"]
    /\ depth'  = [depth EXCEPT ![i] = 1]
    /\ arg'    = [arg EXCEPT ![i] = in]
    /\ input'  = [input EXCEPT ![i] = in]
    /\ val'    = [val EXCEPT ![i] = <<>>]
    /\ events' = [events EXCEPT ![i] = <<Event("call", 1, "", in)>>]
    /\ ncalls' = [ncalls EXCEPT ![i] = @ + 1]
    /\ UNCHANGED buildVars

\* LoggingService::call, up to the await of the inner call.
LoggingBefore(i) ==
    /\ pc[i] = "enter"
    /\ Node(svc[i], depth[i]).kind = "LoggingService"
    /\ events' = [events EXCEPT ![i] =
                    @ \o <<Event("before", depth[i], "", <<>>),
                           Event("call", depth[i] + 1, "", arg[i])>>]
    /\ depth' = [depth EXCEPT ![i] = @ + 1]
    /\ UNCHANGED <<pc, arg, val, input, ncalls>>
    /\ UNCHANGED buildVars

\* LoggingService::call, from the inner result to the return.
LoggingAfter(i) ==
    /\ pc[i] = "resume"
    /\ Node(svc[i], depth[i]).kind = "LoggingService"
    /\ Return(i, ToString(val[i]),
              Append(events[i], Event("after", depth[i], "", val[i])))
    /\ UNCHANGED <<arg, input, ncalls>>
    /\ UNCHANGED buildVars

\* AgentLayerService::call, up to the await of the inner call.
AgentLayerEnter(i) ==
    /\ pc[i] = "enter"
    /\ Node(svc[i], depth[i]).kind = "AgentLayerService"
    /\ Emit(i, Event("call", depth[i] + 1, "", arg[i]))
    /\ depth' = [depth EXCEPT ![i] = @ + 1]
    /\ UNCHANGED <<pc, arg, val, input, ncalls>>
    /\ UNCHANGED buildVars

\* A chaining layer that sends its own input, not the inner result, onward.
AgentLayerPromptInput(i) ==
    /\ pc[i] = "resume"
    /\ Node(svc[i], depth[i]).kind = "AgentLayerService"
    /\ Emit(i, Event("prompt", depth[i], Node(svc[i], depth[i]).agent, arg[i]))
    /\ pc'  = [pc EXCEPT ![i] = "await"]
    /\ UNCHANGED <<depth, arg, val, input, ncalls>>
    /\ UNCHANGED buildVars

\* AgentLayerService::call: the inner result is sent to the layer's agent.
AgentLayerPrompt(i) ==
    /\ pc[i] = "resume"
    /\ Node(svc[i], depth[i]).kind = "AgentLayerService"
    /\ Emit(i, Event("prompt", depth[i], Node(svc[i], depth[i]).agent, val[i]))
    /\ arg' = [arg EXCEPT ![i] = val[i]]
    /\ pc'  = [pc EXCEPT ![i] = "await"]
    /\ UNCHANGED <<depth, val, input, ncalls>>
    /\ UNCHANGED buildVars

\* AgentService::call: the input is sent to the base agent.
AgentServicePrompt(i) ==
    /\ pc[i] = "enter"
    /\ Node(svc[i], depth[i]).kind = "AgentService"
    /\ Emit(i, Event("prompt", depth[i], Node(svc[i], depth[i]).agent, arg[i]))
    /\ pc' = [pc EXCEPT ![i] = "await"]
    /\ UNCHANGED <<depth, arg, val, input, ncalls>>
    /\ UNCHANGED buildVars

\* agent.prompt(..).await yields Ok(text): unwrap gives the text, which the
\* awaiting service returns.
PromptOk(i) ==
    /\ pc[i] = "await"
    /\ Return(i, AgentReply(Node(svc[i], depth[i]).agent, arg[i]), events[i])
    /\ UNCHANGED <<arg, input, ncalls>>
    /\ UNCHANGED buildVars

\* A failed prompt replaced by an empty text (unwrap_or_default).
PromptErrSwallowed(i) ==
    /\ pc[i] = "await"
    /\ Return(i, <<>>, Append(events[i], Event("panic", depth[i], "", <<>>)))
    /\ UNCHANGED <<arg, input, ncalls>>
    /\ UNCHANGED buildVars

\* agent.prompt(..).await yields Err: unwrap panics and the panic unwinds
\* through every enclosing call to the caller.
PromptErr(i) ==
    /\ pc[i] = "await"
    /\ Emit(i, Event("panic", depth[i], "", <<>>))
    /\ pc' = [pc EXCEPT ![i] = "panicked"]
    /\ depth' = [depth EXCEPT ![i] = 0]
    /\ UNCHANGED <<arg, val, input, ncalls>>
    /\ UNCHANGED buildVars

\* One composed service, built by a builder that may be given pre-grouped
\* layers.
Next ==
    \/ \E l \in LayerInputs : Len(added) < MaxLayers /\ layer(l)
    \/ \E a \in BaseAgents : build(1, AgentService_new(a))
    \/ \E a \in BaseAgents : wrap(1, AgentService_new(a))
    \/ \E in \in Inputs : Call(1, in)
    \/ LoggingBefore(1)
    \/ LoggingAfter(1)
    \/ AgentLayerEnter(1)
    \/ AgentLayerPrompt(1)
    \/ AgentServicePrompt(1)
    \/ PromptOk(1)
    \/ PromptErr(1)

Spec == Init /\ [][Next]_vars

\* Two composed services made from one layer chain, their calls interleaved
\* at every step.
NextShared ==
    \/ \E l \in AtomicLayers : Len(added) < MaxSharedLayers /\ layer(l)
    \/ \E i \in Inst, a \in BaseAgents : build(i, AgentService_new(a))
    \/ \E i \in Inst, a \in BaseAgents : wrap(i, AgentService_new(a))
    \/ \E i \in Inst, in \in Inputs : Call(i, in)
    \/ \E i \in Inst : LoggingBefore(i)
    \/ \E i \in Inst : LoggingAfter(i)
    \/ \E i \in Inst : AgentLayerEnter(i)
    \/ \E i \in Inst : AgentLayerPrompt(i)
    \/ \E i \in Inst : AgentServicePrompt(i)
    \/ \E i \in Inst : PromptOk(i)
    \/ \E i \in Inst : PromptErr(i)

SpecShared == Init /\ [][NextShared]_vars

\* ------------------------------------------------- reference definitions
\* The single layers of a layer value, in the order they are applied
\* (innermost first); the no-op layer contributes none.
RECURSIVE Leaves(_)
Leaves(l) ==
    CASE l.kind = "()"    -> <<>>
      [] l.kind = "Stack" -> Leaves(l.inner) \o Leaves(l.outer)
      [] OTHER            -> <<l>>

RECURSIVE FlattenSeq(_)
FlattenSeq(ls) == IF ls = <<>> THEN <<>> ELSE Leaves(Head(ls)) \o FlattenSeq(Tail(ls))

IsPrefix(a, b) == Len(a) <= Len(b) /\ a = SubSeq(b, 1, Len(a))

NoPanic(evs) == LET Keep(e) == e.ev # "panic" IN SelectSeq(evs, Keep)

Count(evs, ev, d) ==
    Cardinality({k \in DOMAIN evs : evs[k].ev = ev /\ evs[k].depth = d})

\* The position of the first event ev made at depth d (0 if none).
Index(evs, ev, d) ==
    LET ks == {k \in DOMAIN evs : evs[k].ev = ev /\ evs[k].depth = d}
    IN  IF ks = {} THEN 0 ELSE CHOOSE k \in ks : \A j \in ks : k <= j

\* What the service wrapping the first k of the single layers ls around a
\* base service of agent a returns for the input x.
RECURSIVE RefOut(_, _, _, _)
RefOut(ls, k, a, x) ==
    IF k = 0 THEN <<a>> \o x
    ELSE IF ls[k].kind = "AgentLayer" THEN <<ls[k].agent>> \o RefOut(ls, k - 1, a, x)
    ELSE RefOut(ls, k - 1, a, x)

\* The events from the service at depth d inward, up to the call of the base.
RECURSIVE RefDown(_, _, _)
RefDown(ls, d, x) ==
    IF d > Len(ls) THEN <<>>
    ELSE (IF ls[Len(ls) - d + 1].kind = "LoggingMiddleware"
            THEN <<Event("before", d, "", <<>>)>> ELSE <<>>)
         \o <<Event("call", d + 1, "", x)>>
         \o RefDown(ls, d + 1, x)

\* The events of the way back out through the services of the first k layers.
RECURSIVE RefUp(_, _, _, _)
RefUp(ls, k, a, x) ==
    IF k = 0 THEN <<>>
    ELSE LET d == Len(ls) - k + 1
             v == RefOut(ls, k - 1, a, x)
         IN  RefUp(ls, k - 1, a, x)
             \o (IF ls[k].kind = "LoggingMiddleware"
                   THEN <<Event("after", d, "", v), Event("ret", d, "", v)>>
                   ELSE <<Event("prompt", d, ls[k].agent, v),
                          Event("ret", d, "", <<ls[k].agent>> \o v)>>)

\* The events of one successful call with input x on the single layers ls
\* (added in that order) around a base service of agent a.
RefTrace(ls, a, x) ==
    <<Event("call", 1, "", x)>>
    \o RefDown(ls, 1, x)
    \o <<Event("prompt", Len(ls) + 1, a, x), Event("ret", Len(ls) + 1, "", <<a>> \o x)>>
    \o RefUp(ls, Len(ls), a, x)

\* The builder obtained from new() by adding the layers ls one at a time.
RECURSIVE BuilderOf(_)
BuilderOf(ls) ==
    IF ls = <<>> THEN ServiceBuilder_new
    ELSE ServiceBuilder_layer(BuilderOf(SubSeq(ls, 1, Len(ls) - 1)), ls[Len(ls)])

\* LN.layer(... L2.layer(L1.layer(s)) ...)
RECURSIVE NestAll(_, _)
NestAll(ls, s) ==
    IF ls = <<>> THEN s
    ELSE Layer_layer(ls[Len(ls)], Wrapping(NestAll(SubSeq(ls, 1, Len(ls) - 1), s))).service

ServiceKind(l) == IF l.kind = "LoggingMiddleware" THEN "LoggingService" ELSE "AgentLayerService"

\* ------------------------------------------------------------------ C1
Step(ev, d) == <<ev, d>>

Steps(evs) ==
    LET Seen(e) == e.ev \in {"before", "prompt", "after"}
        vis == SelectSeq(evs, Seen)
    IN  [k \in 1..Len(vis) |-> Step(vis[k].ev, vis[k].depth)]

PreSteps(l, d)  == IF l.kind = "LoggingMiddleware" THEN <<Step("before", d)>> ELSE <<>>
PostSteps(l, d) == IF l.kind = "LoggingMiddleware" THEN <<Step("after", d)>> ELSE <<Step("prompt", d)>>

\* C1 (order law): with single layers L1 then L2 added, every call runs
\* L2's pre-call step, L1's pre-call step, the base service, L1's post-call
\* step, L2's post-call step, in that order and one after the other: what a
\* call has done so far is always a prefix of that sequence, and a returned
\* call has done all of it.  For two logging layers the sequence is
\* [L2-before, L1-before, base, L1-after, L2-after].
C1_OrderLaw ==
    \A i \in Inst :
        (svc[i] # NoService /\ Len(chain[i]) = 2
            /\ chain[i][1] \in AtomicLayers /\ chain[i][2] \in AtomicLayers) =>
        LET L1 == chain[i][1]
            L2 == chain[i][2]
            expected == PreSteps(L2, 1) \o PreSteps(L1, 2) \o <<Step("prompt", 3)>>
                        \o PostSteps(L1, 2) \o PostSteps(L2, 1)
            got == Steps(events[i])
        IN  /\ IsPrefix(got, expected)
            /\ pc[i] = "returned" => got = expected
            /\ (pc[i] = "returned" /\ L1 = LoggingMiddleware /\ L2 = LoggingMiddleware) =>
                  got = <<Step("before", 1), Step("before", 2), Step("prompt", 3),
                          Step("after", 2), Step("after", 1)>>

C1_Witness ==
    \E i \in Inst :
        /\ chain[i] = <<LoggingMiddleware, LoggingMiddleware>>
        /\ svc[i] # NoService
        /\ pc[i] = "returned"

\* ------------------------------------------------------------------ C2
\* C2 (identity law): a builder to which no layer was added builds the base
\* service itself; a call on it prompts the base agent once with the input
\* and returns the agent's answer, as the base service does.
C2_IdentityLaw ==
    \A i \in Inst :
        (svc[i] # NoService /\ chain[i] = <<>>) =>
        LET a == base[i].agent
            x == input[i]
            expected == <<Event("call", 1, "", x), Event("prompt", 1, a, x),
                          Event("ret", 1, "", <<a>> \o x)>>
        IN  /\ svc[i] = base[i]
            /\ pc[i] # "idle" => IsPrefix(NoPanic(events[i]), expected)
            /\ pc[i] = "returned" => (events[i] = expected /\ val[i] = <<a>> \o x)

C2_Witness ==
    \E i \in Inst : svc[i] # NoService /\ chain[i] = <<>> /\ pc[i] = "returned"

\* ------------------------------------------------------------------ C3
\* C3 (nesting law): the service built from layers L1..LN added in that
\* order is LN.layer(...L2.layer(L1.layer(S))...); the service made by the
\* first layer added holds the base service, the service made by the last
\* layer added is the composed service itself.
C3_NestingLaw ==
    \A i \in Inst :
        svc[i] # NoService =>
        LET ls == chain[i]
            n  == Len(ls)
        IN  /\ svc[i] = NestAll(ls, base[i])
            /\ (n > 0 /\ ls[1] \in AtomicLayers) =>
                  LET first == Node(svc[i], Depth(svc[i]) - 1)
                  IN  first.kind = ServiceKind(ls[1]) /\ first.inner = base[i]
            /\ (n > 0 /\ ls[n] \in AtomicLayers) => svc[i].kind = ServiceKind(ls[n])

C3_Witness ==
    \E i \in Inst :
        /\ svc[i] # NoService
        /\ Len(chain[i]) = 3
        /\ chain[i][1] = LoggingMiddleware
        /\ chain[i][3] \in AtomicLayers /\ chain[i][3] # LoggingMiddleware

\* ------------------------------------------------------------------ C4
\* C4 (associativity): however the layers were grouped into Stacks before
\* they were added, the composed service is the one built by adding the
\* single layers one at a time in the same linear order, and a call on it
\* makes the events and returns the output that this linear order fixes.
C4_Associativity ==
    \A i \in Inst :
        svc[i] # NoService =>
        LET ls == FlattenSeq(chain[i])
            a  == base[i].agent
            x  == input[i]
        IN  /\ svc[i] = ServiceBuilder_build(BuilderOf(ls), base[i]).service
            /\ pc[i] # "idle" => IsPrefix(NoPanic(events[i]), RefTrace(ls, a, x))
            /\ pc[i] = "returned" =>
                  (events[i] = RefTrace(ls, a, x) /\ val[i] = RefOut(ls, Len(ls), a, x))

C4_Witness ==
    \E i \in Inst :
        /\ pc[i] = "returned"
        /\ Len(chain[i]) = 2
        /\ chain[i][1] \in AtomicLayers
        /\ chain[i][2].kind = "Stack"
        /\ chain[i][2].inner # chain[i][2].outer

\* ------------------------------------------------------------------ C5
BaseFailed(i) ==
    \E k \in DOMAIN events[i] :
        events[i][k].ev = "panic" /\ events[i][k].depth = Depth(svc[i])

\* C5 (fail-fast propagation): when the base service fails, the call ends
\* with that failure at the caller, and no enclosing layer has run a
\* post-call step: no logging layer has made its after-event, no chaining
\* layer has prompted its agent, and no service has returned a value.
C5_FailFast ==
    \A i \in Inst :
        BaseFailed(i) =>
            /\ pc[i] = "panicked"
            /\ events[i][Len(events[i])] = Event("panic", Depth(svc[i]), "", <<>>)
            /\ \A k \in DOMAIN events[i] :
                  /\ events[i][k].ev \notin {"after", "ret"}
                  /\ events[i][k].ev = "prompt" => events[i][k].depth = Depth(svc[i])

C5_Witness ==
    \E i \in Inst :
        /\ BaseFailed(i)
        /\ \E d \in 1..(Depth(svc[i]) - 1) : Node(svc[i], d).kind = "LoggingService"
        /\ \E d \in 1..(Depth(svc[i]) - 1) : Node(svc[i], d).kind = "AgentLayerService"

\* ------------------------------------------------------------------ C6
\* C6 (chaining end-to-end): with one chaining layer of agent g around a
\* base service of agent f, a call with input x prompts f once with x, then,
\* after the base has returned, prompts g once with f(x), and returns
\* g(f(x)); with f = "A:" + input and g = "B:" + input, "x" gives "B:A:x".
C6_Chaining ==
    \A i \in Inst :
        (svc[i] # NoService /\ Len(chain[i]) = 1 /\ chain[i][1].kind = "AgentLayer") =>
        LET f == base[i].agent
            g == chain[i][1].agent
            x == input[i]
            expected == <<Event("call", 1, "", x), Event("call", 2, "", x),
                          Event("prompt", 2, f, x), Event("ret", 2, "", <<f>> \o x),
                          Event("prompt", 1, g, <<f>> \o x),
                          Event("ret", 1, "", <<g, f>> \o x)>>
        IN  /\ pc[i] # "idle" => IsPrefix(NoPanic(events[i]), expected)
            /\ pc[i] = "returned" => (events[i] = expected /\ val[i] = <<g, f>> \o x)
            /\ (pc[i] = "returned" /\ f = "A" /\ g = "B" /\ x = <<"x">>) =>
                  val[i] = <<"B", "A", "x">>

C6_Witness ==
    \E i \in Inst :
        /\ chain[i] = <<AgentLayer_new("B")>>
        /\ svc[i] # NoService /\ base[i] = AgentService_new("A")
        /\ pc[i] = "returned" /\ input[i] = <<"x">>

\* ------------------------------------------------------------------ C7
NotLogging(ls) == LET Keep(l) == l.kind # "LoggingMiddleware" IN SelectSeq(ls, Keep)

\* C7 (logging is transparent): in a returned call, every logging service
\* has called its inner service exactly once, with its own input, has
\* returned exactly what the inner service returned, and has made one
\* before-event ahead of the inner call and one after-event behind the inner
\* return; the output of the composed service is the output of the same
\* chain without its logging layers.
C7_LoggingTransparent ==
    \A i \in Inst :
        pc[i] = "returned" =>
        LET evs == events[i]
            ls  == FlattenSeq(chain[i])
            quiet == NotLogging(ls)
        IN  /\ val[i] = RefOut(quiet, Len(quiet), base[i].agent, input[i])
            /\ \A d \in 1..(Depth(svc[i]) - 1) :
                  Node(svc[i], d).kind = "LoggingService" =>
                      /\ Count(evs, "call", d + 1) = 1
                      /\ Count(evs, "before", d) = 1
                      /\ Count(evs, "after", d) = 1
                      /\ evs[Index(evs, "call", d + 1)].data = evs[Index(evs, "call", d)].data
                      /\ evs[Index(evs, "ret", d)].data = evs[Index(evs, "ret", d + 1)].data
                      /\ Index(evs, "before", d) < Index(evs, "call", d + 1)
                      /\ Index(evs, "ret", d + 1) < Index(evs, "after", d)
                      /\ Index(evs, "after", d) < Index(evs, "ret", d)

C7_Witness ==
    \E i \in Inst :
        /\ chain[i] = <<AgentLayer_new("B"), LoggingMiddleware>>
        /\ pc[i] = "returned" /\ input[i] = <<"x">>
        /\ val[i] = <<"B", "A", "x">>

\* ------------------------------------------------------------------ C8
\* C8 (no hidden mutation across instances): whatever calls were made, and
\* are being made, on the other composed service, the output a service has
\* returned is the value it handed back itself, and it is the output its own
\* layers, base service and input fix; two services made from the same layer
\* chain hold equal layer agents and otherwise nothing of each other.
C8_NoHiddenMutation ==
    \A i \in Inst :
        /\ pc[i] = "returned" =>
              LET ls == FlattenSeq(chain[i])
              IN  /\ val[i] = events[i][Len(events[i])].data
                  /\ val[i] = RefOut(ls, Len(ls), base[i].agent, input[i])
        /\ svc[i] # NoService => svc[i] = NestAll(chain[i], base[i])

C8_Witness ==
    /\ svc[1] # NoService /\ svc[2] # NoService
    /\ chain[1] = chain[2] /\ Len(chain[1]) = 2
    /\ pc[1] = "returned" /\ pc[2] = "returned"
    /\ input[1] # input[2]

\* ------------------------------------------------------------------ C9
NonUnit(ls) == LET Keep(l) == l # Unit IN SelectSeq(ls, Keep)

WrappedOnce ==
    \A i \in Inst :
        /\ svc[i] = NoService => (ran[i] = <<>> /\ ncalls[i] = 0)
        /\ svc[i] # NoService =>
              /\ NonUnit(ran[i]) = FlattenSeq(chain[i])
              /\ Len(ran[i]) = Len(FlattenSeq(chain[i])) + 1

WrappedOnlyWhenMade ==
    /\ \A i \in Inst :
          /\ (svc[i] = NoService /\ svc'[i] # NoService) =>
                (builder # Consumed /\ chain'[i] = added /\ UNCHANGED callVars)
          /\ svc[i] # NoService => (svc'[i] = svc[i] /\ ran'[i] = ran[i])
    /\ added' # added => UNCHANGED <<svc, ran>>

\* C9 (deferred, once-only wrapping): new() and layer() run no wrap
\* operation; making the composed service runs the wrap operation of each
\* accumulated layer exactly once, in the order the layers were added, and
\* starts no call; no later call runs a wrap operation or changes the
\* composed service.
C9_DeferredWrapping == [][WrappedOnlyWhenMade]_vars /\ []WrappedOnce

C9_Witness ==
    \E i \in Inst :
        /\ svc[i] # NoService
        /\ Len(chain[i]) = 3
        /\ pc[i] = "returned"

\* ------------------------------------------------------------------ C10
\* The Stacks met going down the inner fields of an accumulator.
RECURSIVE SpineStacks(_)
SpineStacks(l) == IF l.kind = "Stack" THEN 1 + SpineStacks(l.inner) ELSE 0

\* Stack(...Stack(Stack((), L1), L2)..., LN)
RECURSIVE Accumulated(_)
Accumulated(ls) ==
    IF ls = <<>> THEN Unit
    ELSE Stack_new(Accumulated(SubSeq(ls, 1, Len(ls) - 1)), ls[Len(ls)])

\* C10 as stated: a builder with N layers added is a chain of N-1 Stacks.
C10_AsStated ==
    (builder # Consumed /\ Len(added) >= 1) => SpineStacks(builder) + 1 = Len(added)

\* C10 (accumulator shape, amended): a builder with N layers added is a
\* chain of N Stacks ending in the no-op layer, each Stack holding the older
\* accumulator as inner and the layer added as outer, the newest layer being
\* the outer of the top Stack; new() holds just the no-op layer.
C10_AccumulatorShape ==
    builder # Consumed =>
        /\ builder = Accumulated(added)
        /\ SpineStacks(builder) = Len(added)
        /\ added = <<>> => builder = Unit
        /\ added # <<>> => (builder.outer = added[Len(added)]
                            /\ builder.inner = Accumulated(SubSeq(added, 1, Len(added) - 1)))

C10_Witness == builder # Consumed /\ Len(added) = 3

====
